---- MODULE Spec2Model ----
(***************************************************************************)
(* Model of the ridenow document validation pipeline:                      *)
(*   cap1.py  Aadhaar validation (direct text -> OCR fallback -> regex ->  *)
(*            lookup of the first candidate),                              *)
(*   cap2.py  Driving Licence validation (direct text -> OCR fallback ->   *)
(*            cleanup -> regex -> lookup of every match),                  *)
(*   main.py  the two HTTP endpoints that call them.                       *)
(* Texts are sequences of one-character strings.                           *)
(***************************************************************************)
EXTENDS Integers, Sequences, FiniteSets, TLC

VARIABLES pc, op, ocr_reader, content_type, pdf, ocrCalls, ocrOut, matchText,
          candidates, dbCalls, dbState, result, response, normIn, normOut

vars == <<pc, op, ocr_reader, content_type, pdf, ocrCalls, ocrOut, matchText,
          candidates, dbCalls, dbState, result, response, normIn, normOut>>

(***************************************************************************)
(* Bounds of the model.                                                    *)
(***************************************************************************)
\* number of tokens concatenated into the embedded text of a PDF
MaxTokens == 2
\* number of tokens concatenated into the text the OCR engine reads
MaxOcrTokens == 2
\* length of the short strings normalisation is applied to
MaxNormLen == 3

(***************************************************************************)
(* Characters and character classes of Python's re module.                 *)
(***************************************************************************)
Digit == {"0", "1", "2", "3", "4", "5", "6", "7", "8", "9"}

UpperSeq == <<"A", "B", "C", "D", "E", "F", "G", "H", "I", "J", "K", "L", "M",
              "N", "O", "P", "Q", "R", "S", "T", "U", "V", "W", "X", "Y", "Z">>

LowerSeq == <<"a", "b", "c", "d", "e", "f", "g", "h", "i", "j", "k", "l", "m",
              "n", "o", "p", "q", "r", "s", "t", "u", "v", "w", "x", "y", "z">>

UpperLetter == {UpperSeq[k] : k \in DOMAIN UpperSeq}

LowerLetter == {LowerSeq[k] : k \in DOMAIN LowerSeq}

\* \s
Whitespace == {" ", "\n", "\t"}

\* [\s-] and [-\s]
Separator == Whitespace \cup {"-"}

\* str.upper() on one character
UpperChar(ch) ==
    IF ch \in LowerLetter
    THEN UpperSeq[CHOOSE k \in DOMAIN LowerSeq : LowerSeq[k] = ch]
    ELSE ch

\* str.upper()
Upper(t) == [k \in DOMAIN t |-> UpperChar(t[k])]

\* str.replace(a, b) for single characters a, b
Replace(t, a, b) == [k \in DOMAIN t |-> IF t[k] = a THEN b ELSE t[k]]

IsDigit(ch) == ch \in Digit

NotSeparator(ch) == ch \notin Separator

RECURSIVE LStrip(_)
LStrip(t) == IF t # <<>> /\ Head(t) \in Whitespace THEN LStrip(Tail(t)) ELSE t

RECURSIVE RStrip(_)
RStrip(t) ==
    IF t # <<>> /\ t[Len(t)] \in Whitespace
    THEN RStrip(SubSeq(t, 1, Len(t) - 1))
    ELSE t

\* str.strip()
Strip(t) == RStrip(LStrip(t))

\* t[i .. i+n-1] are n characters of class cls
ClassAt(t, i, n, cls) ==
    /\ i + n - 1 <= Len(t)
    /\ \A k \in i..(i + n - 1) : t[k] \in cls

\* the positions after an optional separator at i, greedy choice first
AfterOptSep(t, i) ==
    IF i <= Len(t) /\ t[i] \in Separator THEN <<i + 1, i>> ELSE <<i>>

\* the first of the (one or two) positions after an optional separator from
\* which the rest of the pattern matches, 0 if none: the regex engine
\* backtracks over the optional separator
FirstOk(ends, ok1, ok2) ==
    IF ok1 THEN ends[1]
    ELSE IF Len(ends) > 1 /\ ok2 THEN ends[2]
    ELSE 0

(***************************************************************************)
(* cap1.py: r'(?:\d{4}[\s-]?){2}\d{4}'.  AadhaarMatchEnd is the position   *)
(* after the match that starts at i, or 0 when there is none.              *)
(***************************************************************************)
AadhaarGroupLen == 4

\* \d{4} at p
GroupAt(t, p) == ClassAt(t, p, AadhaarGroupLen, Digit)

\* [\s-]?\d{4} from p: the position of the digits, 0 if none
LastGroupFrom(t, p) ==
    LET ends == AfterOptSep(t, p)
    IN  FirstOk(ends, GroupAt(t, ends[1]), Len(ends) > 1 /\ GroupAt(t, ends[2]))

\* \d{4}[\s-]?\d{4} at p
TwoGroupsAt(t, p) ==
    GroupAt(t, p) /\ LastGroupFrom(t, p + AadhaarGroupLen) # 0

AadhaarMatchEnd(t, i) ==
    IF ~GroupAt(t, i) THEN 0
    ELSE LET ends == AfterOptSep(t, i + AadhaarGroupLen)
             p2 == FirstOk(ends, TwoGroupsAt(t, ends[1]),
                           Len(ends) > 1 /\ TwoGroupsAt(t, ends[2]))
         IN  IF p2 = 0 THEN 0
             ELSE LastGroupFrom(t, p2 + AadhaarGroupLen) + AadhaarGroupLen

(***************************************************************************)
(* cap2.py: DL_REGEX = r"[A-Z]{2}\d{2}[-\s]?\d{11}"                        *)
(***************************************************************************)
DLLetters == 2

DLHeadDigits == 2

DLTailDigits == 11

DL_REGEX(t, i) ==
    IF ~(ClassAt(t, i, DLLetters, UpperLetter)
          /\ ClassAt(t, i + DLLetters, DLHeadDigits, Digit))
    THEN 0
    ELSE LET ends == AfterOptSep(t, i + DLLetters + DLHeadDigits)
             p == FirstOk(ends, ClassAt(t, ends[1], DLTailDigits, Digit),
                          Len(ends) > 1 /\ ClassAt(t, ends[2], DLTailDigits, Digit))
         IN  IF p = 0 THEN 0 ELSE p + DLTailDigits

\* re.findall: leftmost non-overlapping matches, in text order
\* ends[i] is the position after the match that starts at i, 0 if none
RECURSIVE FindAllFrom(_, _, _)
FindAllFrom(t, i, ends) ==
    IF i > Len(t) THEN <<>>
    ELSE IF ends[i] = 0 THEN FindAllFrom(t, i + 1, ends)
    ELSE <<SubSeq(t, i, ends[i] - 1)>> \o FindAllFrom(t, ends[i], ends)

\* re.findall(r'(?:\d{4}[\s-]?){2}\d{4}', text)
FindAllAadhaar(t) == FindAllFrom(t, 1, [i \in 1..Len(t) |-> AadhaarMatchEnd(t, i)])

\* re.findall(DL_REGEX, raw_text_clean)
FindAllDL(t) == FindAllFrom(t, 1, [i \in 1..Len(t) |-> DL_REGEX(t, i)])

\* re.sub(r'\s', '', m): only the whitespace removed, a hyphen kept
StripNonDigits_SpacesOnly(m) == SelectSeq(m, LAMBDA ch : ch \notin Whitespace)

\* re.sub(r'\D', '', m)
StripNonDigits(m) == SelectSeq(m, IsDigit)

InSeq(x, s) == \E k \in DOMAIN s : s[k] = x

\* cap1.py find_aadhaar: the loop over the matches
RECURSIVE CleanLoop(_, _)
CleanLoop(matches, clean) ==
    IF matches = <<>> THEN clean
    ELSE LET digits == StripNonDigits(Head(matches))
         IN  IF Len(digits) = 12 /\ ~InSeq(digits, clean)
             THEN CleanLoop(Tail(matches), Append(clean, digits))
             ELSE CleanLoop(Tail(matches), clean)

find_aadhaar(text) == CleanLoop(FindAllAadhaar(text), <<>>)

\* cap2.py clean_extracted_text
clean_extracted_text(text) ==
    Replace(Replace(Replace(Replace(Replace(Upper(text),
        "O", "0"), "I", "1"), "|", "1"), "S", "5"), "B", "8")

RECURSIVE DropFirstSeparator(_)
DropFirstSeparator(t) ==
    IF t = <<>> THEN <<>>
    ELSE IF Head(t) \in Separator THEN Tail(t)
    ELSE <<Head(t)>> \o DropFirstSeparator(Tail(t))

\* re.sub(..., count=1): only the first separator removed
normalize_dl_Once(dl_number) == DropFirstSeparator(Upper(dl_number))

\* cap2.py normalize_dl
normalize_dl(dl_number) == SelectSeq(Upper(dl_number), NotSeparator)


(***************************************************************************)
(* The reference stores as the program populates them.                     *)
(***************************************************************************)
\* cap1.py create_dummy_db: dummy_aadhaars
dummy_aadhaars ==
    << <<"5", "7", "0", "4", "5", "3", "9", "7", "1", "5", "3", "2">>,
       <<"8", "0", "9", "4", "7", "1", "9", "6", "4", "8", "4", "7">>,
       <<"5", "4", "1", "3", "0", "9", "5", "1", "4", "4", "7", "1">> >>

\* main.py validate_dl_endpoint / cap2.py __main__: rows of dl_records
dl_records ==
    << <<"C", "G", "1", "0", " ", "2", "0", "2", "2", "0", "0", "0", "7", "0", "4", "8">>,
       <<"G", "J", "1", "5", " ", "2", "0", "2", "3", "0", "0", "0", "9", "6", "5", "5">> >>

\* what sqlite3 does when the store is consulted: it answers, it raises
\* sqlite3.OperationalError (no such table, unable to open the file), or it
\* raises another sqlite3.DatabaseError (the file is not a database)
DbStates == {"ok", "unavailable", "corrupt"}

\* cap1.py check_in_db: SELECT ... WHERE aadhaar = ?   (exact text equality)
check_in_db(aadhaar_number, db) ==
    IF db = "ok"
    THEN [raised |-> FALSE, value |-> InSeq(aadhaar_number, dummy_aadhaars)]
    ELSE [raised |-> TRUE, value |-> FALSE]

\* a comparison of the leading characters only (a LIKE 'prefix%' lookup)
RowMatches_Prefix(row, dl_number) ==
    SubSeq(normalize_dl(row), 1, 14) = SubSeq(normalize_dl(dl_number), 1, 14)

\* cap2.py check_dl_in_db: the comparison of one row with the candidate
RowMatches(row, dl_number) == normalize_dl(row) = normalize_dl(dl_number)

\* cap2.py check_dl_in_db: only sqlite3.OperationalError is caught
check_dl_in_db(dl_number, db) ==
    IF db = "ok"
    THEN [raised |-> FALSE,
          value |-> \E k \in DOMAIN dl_records : RowMatches(dl_records[k], dl_number)]
    ELSE IF db = "unavailable"
    THEN [raised |-> FALSE, value |-> FALSE]
    ELSE [raised |-> TRUE, value |-> FALSE]

(***************************************************************************)
(* The documents: texts are concatenations of a few tokens.                *)
(***************************************************************************)
\* cap1.py:95 and cap2.py:94: the fallback thresholds
AadhaarThreshold == 50

DLThreshold == 50

\* a run of n copies of one character
Run(n, ch) == [k \in 1..n |-> ch]

\* pieces of the embedded text of an Aadhaar document
AadhaarTokens ==
    { <<"5", "7", "0", "4", "5", "3", "9", "7", "1", "5", "3", "2">>,
      <<"5", "7", "0", "4", " ", "5", "3", "9", "7", " ", "1", "5", "3", "2">>,
      <<"5", "7", "0", "4", "-", "5", "3", "9", "7", "-", "1", "5", "3", "2">>,
      <<"5", "7", "0", "4", "5", "3", "9", "7", "1", "5", "3", "3">>,
      <<"8", "0", "9", "4", " ", "7", "1", "9", "6", " ", "4", "8", "4", "7">>,
      <<"9", "9">>,
      Run(AadhaarThreshold, "x"),
      Run(AadhaarThreshold, " ") }

\* pieces of the embedded text of a Driving Licence document
DLTokens ==
    { <<"C", "G", "1", "0", " ", "2", "0", "2", "2", "0", "0", "0", "7", "0", "4", "8">>,
      <<"C", "G", "1", "0", "-", "2", "0", "2", "2", "0", "0", "0", "7", "0", "4", "8">>,
      <<"C", "G", "1", "0", "2", "0", "2", "2", "0", "0", "0", "7", "0", "4", "8">>,
      <<"C", "G", "1", "0", " ", "2", "0", "2", "2", "0", "0", "0", "7", "0", "4", "9">>,
      <<"B", "R", "0", "1", " ", "2", "0", "2", "2", "0", "0", "0", "7", "0", "4", "8">>,
      <<"G", "J", "1", "5", "-", "2", "0", "2", "3", "0", "0", "0", "9", "6", "5", "5">>,
      Run(DLThreshold, "x"),
      Run(DLThreshold, " ") }

\* what the OCR engine may read from the page images
AadhaarOcrTokens ==
    { <<"5", "7", "0", "4", "-", "5", "3", "9", "7", "-", "1", "5", "3", "2">>,
      <<"5", "7", "0", "4", "5", "3", "9", "7", "1", "5", "3", "3">>,
      <<"\n">> }

DLOcrTokens ==
    { <<"C", "G", "1", "0", "-", "2", "0", "2", "2", "0", "0", "0", "7", "0", "4", "8">>,
      <<"C", "G", "1", "0", "2", "0", "2", "2", "0", "0", "0", "7", "0", "4", "8">>,
      <<"C", "G", "1", "0", " ", "2", "0", "2", "2", "0", "0", "0", "7", "0", "4", "9">>,
      <<"\n">> }

RECURSIVE Flatten(_)
Flatten(ts) == IF ts = <<>> THEN <<>> ELSE Head(ts) \o Flatten(Tail(ts))

TextsOver(toks, n) ==
    UNION {{Flatten(ts) : ts \in [1..k -> toks]} : k \in 0..n}

AadhaarOcrTexts == TextsOver(AadhaarOcrTokens, MaxOcrTokens)

DLOcrTexts == TextsOver(DLOcrTokens, MaxOcrTokens)

\* a PDF: fitz.open succeeds and the pages carry the embedded text, or it raises
PdfsOver(toks) ==
    {[ok |-> TRUE, text |-> t] : t \in TextsOver(toks, MaxTokens)}
      \cup {[ok |-> FALSE, text |-> <<>>]}

AadhaarPdfs == PdfsOver(AadhaarTokens)

DLPdfs == PdfsOver(DLTokens)


(***************************************************************************)
(* Results.  A message is modelled by its kind and the identifier(s) the   *)
(* f-string interpolates; "raised" is an exception that leaves the         *)
(* validation function.                                                    *)
(***************************************************************************)
Msg(kind, id) == [kind |-> kind, id |-> id, lines |-> <<>>]

Lines(lines) == [kind |-> "results", id |-> <<>>, lines |-> lines]

NoResponse == [status |-> 0, message |-> <<>>, detail |-> ""]

\* main.py: JSONResponse(content={"message": result}), and the except clause
\* that turns an exception into HTTPException(500)
EndpointResponse(res) ==
    IF res.kind = "raised"
    THEN [status |-> 500, message |-> <<>>, detail |-> "Exception"]
    ELSE [status |-> 200, message |-> <<res>>, detail |-> ""]

\* the return (or raise) of a validation: every effect of one run
Finish(o, p, calls, out, mt, cands, lookups, db, res, ep) ==
    /\ pc' = "done"
    /\ op' = o
    /\ pdf' = p
    /\ ocrCalls' = calls
    /\ ocrOut' = out
    /\ matchText' = mt
    /\ candidates' = cands
    /\ dbCalls' = lookups
    /\ dbState' = db
    /\ result' = res
    /\ response' = IF ep THEN EndpointResponse(res) ELSE NoResponse
    /\ content_type' = IF ep THEN "application/pdf" ELSE "none"
    /\ UNCHANGED <<ocr_reader, normIn, normOut>>

(***************************************************************************)
(* cap1.py validate_aadhaar_from_pdf                                       *)
(***************************************************************************)
\* the comparison written as <= : a text of exactly the threshold length falls back
NeedsOcrAadhaar_Inclusive(extracted_text) ==
    Len(Strip(extracted_text)) <= AadhaarThreshold

\* cap1.py:95  len(extracted_text.strip()) < 50
NeedsOcrAadhaar(extracted_text) == Len(Strip(extracted_text)) < AadhaarThreshold

\* the OCR output appended to the short direct text instead of replacing it
AadhaarFallbackText_Append(extracted_text, ocr_text) == extracted_text \o ocr_text

\* cap1.py:97  extracted_text = extract_text_with_easyocr(pdf_path)
AadhaarFallbackText(extracted_text, ocr_text) == ocr_text

\* the last candidate taken instead of the first
FirstCandidate_Last(aadhaars) == aadhaars[Len(aadhaars)]

\* cap1.py:107  aadhaars[0] if aadhaars else None
FirstCandidate(aadhaars) == aadhaars[1]

\* cap1.py:106-120
AadhaarLookup(p, calls, out, text, ep) ==
    LET aadhaars == find_aadhaar(text)
    IN  IF aadhaars = <<>>
        THEN Finish("aadhaar", p, calls, out, <<text>>, aadhaars, <<>>, "unused",
                    Msg("no_match", <<>>), ep)
        ELSE \E db \in DbStates :
               LET aadhaar_number == FirstCandidate(aadhaars)
                   match == check_in_db(aadhaar_number, db)
               IN  Finish("aadhaar", p, calls, out, <<text>>, aadhaars,
                          <<aadhaar_number>>, db,
                          IF match.raised THEN Msg("error", <<>>)
                          ELSE IF match.value THEN Msg("valid", aadhaar_number)
                          ELSE Msg("not_found", aadhaar_number),
                          ep)

\* cap1.py:102-104
AadhaarAfterExtract(p, calls, out, text, ep) ==
    IF text = <<>>
    THEN Finish("aadhaar", p, calls, out, <<>>, <<>>, <<>>, "unused",
                Msg("no_text", <<>>), ep)
    ELSE AadhaarLookup(p, calls, out, text, ep)

\* cap1.py:89-122; every exception is caught at line 121
validate_aadhaar_from_pdf(ep) ==
    \E p \in AadhaarPdfs :
      IF ~p.ok
      THEN Finish("aadhaar", p, 0, <<>>, <<>>, <<>>, <<>>, "unused",
                  Msg("error", <<>>), ep)
      ELSE IF NeedsOcrAadhaar(p.text)
      THEN \E readerOk \in BOOLEAN :
             IF ~readerOk
             THEN Finish("aadhaar", p, 1, <<>>, <<>>, <<>>, <<>>, "unused",
                         Msg("error", <<>>), ep)
             ELSE \E o \in AadhaarOcrTexts :
                    AadhaarAfterExtract(p, 1, <<o>>, AadhaarFallbackText(p.text, o), ep)
      ELSE AadhaarAfterExtract(p, 0, <<>>, p.text, ep)

(***************************************************************************)
(* cap2.py validate_dl_from_pdf                                            *)
(***************************************************************************)
\* cap2.py extract_direct_text: an exception yields ""
extract_direct_text(p) == IF p.ok THEN p.text ELSE <<>>

\* cap2.py:94  not raw_text or len(raw_text.strip()) < 50
NeedsOcrDL(raw_text) == raw_text = <<>> \/ Len(Strip(raw_text)) < DLThreshold

\* cap2.py:96  raw_text = extract_text_with_easyocr(pdf_path)
DLFallbackText(raw_text, ocr_text) == ocr_text

\* list(set(...)): the unique raw matches in any order
Orders(S) ==
    {f \in [1..Cardinality(S) -> S] : \A i, j \in DOMAIN f : i # j => f[i] # f[j]}

\* cap2.py:107  the keys that set() deduplicates on
UniqueMatches(found) == {found[k] : k \in DOMAIN found}

\* cap2.py:100-121
DLAfterExtract(p, calls, out, raw_text, ep) ==
    IF raw_text = <<>> \/ Strip(raw_text) = <<>>
    THEN Finish("dl", p, calls, out, <<>>, <<>>, <<>>, "unused",
                Msg("no_text", <<>>), ep)
    ELSE LET raw_text_clean == clean_extracted_text(raw_text)
             uniq == UniqueMatches(FindAllDL(raw_text_clean))
         IN  IF uniq = {}
             THEN Finish("dl", p, calls, out, <<raw_text>>, <<>>, <<>>, "unused",
                         Msg("no_match", <<>>), ep)
             ELSE \E order \in Orders(uniq) : \E db \in DbStates :
                    LET matches == [k \in DOMAIN order |-> Strip(order[k])]
                        in_db == [k \in DOMAIN matches |-> check_dl_in_db(matches[k], db)]
                    IN  IF in_db[1].raised
                        THEN Finish("dl", p, calls, out, <<raw_text>>, matches,
                                    <<matches[1]>>, db, Msg("raised", <<>>), ep)
                        ELSE Finish("dl", p, calls, out, <<raw_text>>, matches,
                                    matches, db,
                                    Lines([k \in DOMAIN matches |->
                                             [verdict |-> IF in_db[k].value
                                                          THEN "valid" ELSE "not_in_db",
                                              dl |-> matches[k]]]),
                                    ep)

\* cap2.py:88-121; easyocr.Reader is constructed outside the try of
\* extract_text_with_easyocr, and the function has no try of its own
validate_dl_from_pdf(ep) ==
    \E p \in DLPdfs :
      LET raw_text == extract_direct_text(p)
      IN  IF NeedsOcrDL(raw_text)
          THEN \E readerOk \in BOOLEAN :
                 IF ~readerOk
                 THEN Finish("dl", p, 1, <<>>, <<>>, <<>>, <<>>, "unused",
                             Msg("raised", <<>>), ep)
                 ELSE \E o \in (IF p.ok THEN DLOcrTexts ELSE {<<>>}) :
                        DLAfterExtract(p, 1, <<o>>, DLFallbackText(raw_text, o), ep)
          ELSE DLAfterExtract(p, 0, <<>>, raw_text, ep)


(***************************************************************************)
(* main.py: the HTTP layer                                                 *)
(***************************************************************************)
ContentTypes == {"application/pdf", "image/png"}

\* cap1.py:89  def validate_aadhaar_from_pdf(pdf_path)
ValidateAadhaarParams == 1

\* cap2.py:88  def validate_dl_from_pdf(pdf_path)
ValidateDLParams == 1

\* main.py:52 and main.py:82  validate_..._from_pdf(temp_file_path, ocr_reader)
EndpointCallArgs == 2

\* a response that is sent without the validation body having run
Respond(o, ct, p, resp) ==
    /\ pc' = "done"
    /\ op' = o
    /\ content_type' = ct
    /\ pdf' = p
    /\ response' = resp
    /\ UNCHANGED <<ocr_reader, ocrCalls, ocrOut, matchText, candidates, dbCalls,
                   dbState, result, normIn, normOut>>

\* main.py:26-36
startup_event ==
    /\ pc = "idle"
    /\ ocr_reader = "None"
    /\ ocr_reader' = "Reader"
    /\ UNCHANGED <<pc, op, content_type, pdf, ocrCalls, ocrOut, matchText,
                   candidates, dbCalls, dbState, result, response, normIn, normOut>>

\* main.py:41-59; a call with the wrong number of arguments raises TypeError
\* before the callee's body runs, and line 55 turns it into a 500
validate_aadhaar_endpoint ==
    /\ pc = "idle"
    /\ ocr_reader = "Reader"
    /\ \E ct \in ContentTypes :
         IF ct # "application/pdf"
         THEN \E p \in AadhaarPdfs :
                Respond("aadhaar_endpoint", ct, p,
                        [status |-> 400, message |-> <<>>, detail |-> "Invalid file type"])
         ELSE IF EndpointCallArgs # ValidateAadhaarParams
         THEN \E p \in AadhaarPdfs :
                Respond("aadhaar_endpoint", ct, p,
                        [status |-> 500, message |-> <<>>, detail |-> "TypeError"])
         ELSE validate_aadhaar_from_pdf(TRUE)

\* main.py:61-89
validate_dl_endpoint ==
    /\ pc = "idle"
    /\ ocr_reader = "Reader"
    /\ \E ct \in ContentTypes :
         IF ct # "application/pdf"
         THEN \E p \in DLPdfs :
                Respond("dl_endpoint", ct, p,
                        [status |-> 400, message |-> <<>>, detail |-> "Invalid file type"])
         ELSE IF EndpointCallArgs # ValidateDLParams
         THEN \E p \in DLPdfs :
                Respond("dl_endpoint", ct, p,
                        [status |-> 500, message |-> <<>>, detail |-> "TypeError"])
         ELSE validate_dl_from_pdf(TRUE)

\* cap1.py:125-131: the standalone program calls the function with one argument;
\* main.py's startup_event never ran in that process
AadhaarMain ==
    /\ pc = "idle"
    /\ ocr_reader = "None"
    /\ validate_aadhaar_from_pdf(FALSE)

\* cap2.py:124-137
DLMain ==
    /\ pc = "idle"
    /\ ocr_reader = "None"
    /\ validate_dl_from_pdf(FALSE)

(***************************************************************************)
(* The normalisations applied on their own.                                *)
(***************************************************************************)
NormAlphabet == {"a", "C", "1", " ", "-"}

NormInputs ==
    UNION {[1..k -> NormAlphabet] : k \in 0..MaxNormLen}
      \cup AadhaarTokens \cup DLTokens
      \cup {dummy_aadhaars[k] : k \in DOMAIN dummy_aadhaars}
      \cup {dl_records[k] : k \in DOMAIN dl_records}

Normalized(o, x, y) ==
    /\ pc' = "done"
    /\ op' = o
    /\ normIn' = x
    /\ normOut' = y
    /\ UNCHANGED <<ocr_reader, content_type, pdf, ocrCalls, ocrOut, matchText,
                   candidates, dbCalls, dbState, result, response>>

\* cap2.py:68-69 applied to x
NormalizeDL ==
    /\ pc = "idle"
    /\ \E x \in NormInputs : Normalized("normalize_dl", x, normalize_dl(x))

\* cap1.py:74 applied to x
NormalizeAadhaar ==
    /\ pc = "idle"
    /\ \E x \in NormInputs : Normalized("strip_non_digits", x, StripNonDigits(x))

(***************************************************************************)
(* The state machine: one request or run at a time (spec section 5).       *)
(***************************************************************************)
NoPdf == [ok |-> TRUE, text |-> <<>>]

Init ==
    /\ pc = "idle"
    /\ op = "none"
    /\ ocr_reader = "None"
    /\ content_type = "none"
    /\ pdf = NoPdf
    /\ ocrCalls = 0
    /\ ocrOut = <<>>
    /\ matchText = <<>>
    /\ candidates = <<>>
    /\ dbCalls = <<>>
    /\ dbState = "unused"
    /\ result = Msg("none", <<>>)
    /\ response = NoResponse
    /\ normIn = <<>>
    /\ normOut = <<>>

\* the next request starts from a clean slate; the loaded reader stays
NextRequest ==
    /\ pc = "done"
    /\ pc' = "idle"
    /\ op' = "none"
    /\ content_type' = "none"
    /\ pdf' = NoPdf
    /\ ocrCalls' = 0
    /\ ocrOut' = <<>>
    /\ matchText' = <<>>
    /\ candidates' = <<>>
    /\ dbCalls' = <<>>
    /\ dbState' = "unused"
    /\ result' = Msg("none", <<>>)
    /\ response' = NoResponse
    /\ normIn' = <<>>
    /\ normOut' = <<>>
    /\ UNCHANGED ocr_reader

Next ==
    \/ startup_event
    \/ validate_aadhaar_endpoint
    \/ validate_dl_endpoint
    \/ AadhaarMain
    \/ DLMain
    \/ NormalizeDL
    \/ NormalizeAadhaar
    \/ NextRequest

Spec == Init /\ [][Next]_vars


(***************************************************************************)
(* Properties.                                                             *)
(***************************************************************************)
\* a validation function has returned (or raised)
Validated(o) == pc = "done" /\ op = o

\* the direct extraction produced a text: cap1 needs fitz.open to succeed,
\* cap2 turns a failure into the empty text
HasDirectText == Validated("dl") \/ (Validated("aadhaar") /\ pdf.ok)

DirectText == IF pdf.ok THEN pdf.text ELSE <<>>

ThresholdOf(o) == IF o = "aadhaar" THEN AadhaarThreshold ELSE DLThreshold

\* C1 as stated: whenever the directly extracted text has at least 50
\* characters, OCR is not invoked and matching runs on the direct text.
C1_AsStated ==
    (HasDirectText /\ Len(DirectText) >= ThresholdOf(op))
        => (ocrCalls = 0 /\ matchText = <<DirectText>>)

\* C1 amended: whenever the directly extracted text, with leading and
\* trailing whitespace stripped, has at least 50 characters, OCR is not
\* invoked and pattern matching runs on the directly extracted text.
C1_NoOcrAboveThreshold ==
    (HasDirectText /\ Len(Strip(DirectText)) >= ThresholdOf(op))
        => (ocrCalls = 0 /\ ocrOut = <<>> /\ matchText = <<DirectText>>)

\* a 50-character text with a stored Aadhaar number was validated without OCR
C1_Witness ==
    /\ Validated("aadhaar")
    /\ Len(Strip(pdf.text)) >= AadhaarThreshold
    /\ ocrCalls = 0
    /\ result.kind = "valid"

\* C2: whenever the directly extracted text is below the threshold, OCR is
\* invoked exactly once, and the text handed to pattern matching (if any) is
\* exactly what OCR returned; an empty OCR output ends in "no text".
C2_OcrOutputReplacesDirectText ==
    (HasDirectText /\ Len(Strip(DirectText)) < ThresholdOf(op))
        => /\ ocrCalls = 1
           /\ matchText # <<>> => matchText = ocrOut
           /\ ocrOut = <<<<>>>> => result.kind = "no_text"
           /\ ocrOut = <<>> => result.kind \in {"error", "raised"}

\* the short direct text held a stored Aadhaar number, OCR read another
\* number, and the verdict is about the number OCR read
C2_Witness ==
    /\ Validated("aadhaar")
    /\ pdf.text = dummy_aadhaars[1]
    /\ ocrCalls = 1
    /\ ocrOut # <<>> /\ ocrOut[1] # <<>>
    /\ result.kind = "not_found"
    /\ result.id # dummy_aadhaars[1]

\* C10: validate_aadhaar_from_pdf looks up at most one number, the first
\* candidate in text order, never looks anything up without a candidate,
\* and its verdict is about that first candidate alone: "not found" when
\* the first candidate is not stored, whatever the later candidates are.
C10_OnlyFirstCandidate ==
    Validated("aadhaar") =>
        /\ Len(dbCalls) <= 1
        /\ candidates = <<>> => dbCalls = <<>>
        /\ matchText # <<>> => candidates = find_aadhaar(matchText[1])
        /\ candidates # <<>> => dbCalls = <<candidates[1]>>
        /\ result.kind \in {"valid", "not_found"} => result.id = candidates[1]
        /\ (candidates # <<>> /\ dbState = "ok"
              /\ ~InSeq(candidates[1], dummy_aadhaars))
             => result.kind = "not_found"

\* the first candidate is unknown, a later one is stored: "not found"
C10_Witness ==
    /\ Validated("aadhaar")
    /\ Len(candidates) >= 2
    /\ ~InSeq(candidates[1], dummy_aadhaars)
    /\ InSeq(candidates[2], dummy_aadhaars)
    /\ dbState = "ok"
    /\ result.kind = "not_found"


\* the normal form of an identifier: separators stripped, case folded
RECURSIVE NormalForm(_)
NormalForm(x) ==
    IF x = <<>> THEN <<>>
    ELSE IF Head(x) \in {" ", "-", "\n", "\t"} THEN NormalForm(Tail(x))
    ELSE <<UpperChar(Head(x))>> \o NormalForm(Tail(x))

ValidLines == {i \in DOMAIN result.lines : result.lines[i].verdict = "valid"}

\* C3: a validation reports an identifier as valid only if the store could
\* be read at lookup time and holds a record whose normal form equals the
\* normal form of the reported identifier exactly.
C3_ValidOnlyOnExactNormalizedMatch ==
    /\ (Validated("aadhaar") /\ result.kind = "valid")
         => /\ dbState = "ok"
            /\ \E k \in DOMAIN dummy_aadhaars :
                 NormalForm(dummy_aadhaars[k]) = NormalForm(result.id)
    /\ Validated("dl")
         => \A i \in ValidLines :
              /\ dbState = "ok"
              /\ \E k \in DOMAIN dl_records :
                   NormalForm(dl_records[k]) = NormalForm(result.lines[i].dl)

\* one document with a stored licence written with a hyphen (valid) and a
\* licence that differs from a stored one in its last digit (not valid)
C3_Witness ==
    /\ Validated("dl")
    /\ dbState = "ok"
    /\ \E i, j \in DOMAIN result.lines :
         /\ result.lines[i].verdict = "valid"
         /\ result.lines[i].dl # dl_records[1]
         /\ result.lines[j].verdict = "not_in_db"
         /\ SubSeq(NormalForm(result.lines[j].dl), 1, 14)
              = SubSeq(NormalForm(dl_records[1]), 1, 14)

\* the separator formattings of an identifier
SepChoices == {<<>>, <<" ">>, <<"-">>}

AadhaarFormats(r) ==
    {SubSeq(r, 1, 4) \o s1 \o SubSeq(r, 5, 8) \o s2 \o SubSeq(r, 9, 12) :
        s1 \in SepChoices, s2 \in SepChoices}

DLFormats(r) ==
    LET n == NormalForm(r)
    IN  {SubSeq(n, 1, 4) \o s \o SubSeq(n, 5, Len(n)) : s \in SepChoices}

OccursAt(text, sub, i) ==
    i + Len(sub) - 1 <= Len(text) /\ SubSeq(text, i, i + Len(sub) - 1) = sub

Contains(text, sub) == \E i \in 1..Len(text) : OccursAt(text, sub, i)

\* sub occurs in text and no Aadhaar candidate starts before it
OccursAsFirstCandidate(text, sub) ==
    \E i \in 1..Len(text) :
        /\ OccursAt(text, sub, i)
        /\ \A j \in 1..(i - 1) : AadhaarMatchEnd(text, j) = 0

\* C4 as stated: whenever the extracted text contains a stored identifier
\* in some separator formatting (and the store can be read), the document
\* is reported as valid for that identifier.
C4_AsStated ==
    /\ (Validated("aadhaar") /\ matchText # <<>> /\ dbState \in {"ok", "unused"})
         => \A k \in DOMAIN dummy_aadhaars :
              \A f \in AadhaarFormats(dummy_aadhaars[k]) :
                Contains(matchText[1], f) => result = Msg("valid", dummy_aadhaars[k])
    /\ (Validated("dl") /\ matchText # <<>> /\ dbState \in {"ok", "unused"})
         => \A k \in DOMAIN dl_records :
              \A f \in DLFormats(dl_records[k]) :
                Contains(matchText[1], f)
                  => \E i \in ValidLines :
                       NormalForm(result.lines[i].dl) = NormalForm(dl_records[k])

\* C4 amended: when the store can be read, validate_dl_from_pdf reports a
\* valid line for every stored licence the extracted text contains in any
\* separator formatting, and validate_aadhaar_from_pdf reports a stored
\* number as valid, in any separator formatting, when it is the first
\* candidate of the extracted text.
C4_StoredIdentifierMatchesInAnyFormatting ==
    /\ (Validated("aadhaar") /\ matchText # <<>> /\ dbState = "ok")
         => \A k \in DOMAIN dummy_aadhaars :
              \A f \in AadhaarFormats(dummy_aadhaars[k]) :
                OccursAsFirstCandidate(matchText[1], f)
                  => result = Msg("valid", dummy_aadhaars[k])
    /\ (Validated("dl") /\ matchText # <<>> /\ dbState = "ok")
         => \A k \in DOMAIN dl_records :
              \A f \in DLFormats(dl_records[k]) :
                Contains(matchText[1], f)
                  => \E i \in ValidLines :
                       NormalForm(result.lines[i].dl) = NormalForm(dl_records[k])

\* a stored Aadhaar number written with hyphens is the first of two
\* candidates and is reported as valid
C4_Witness ==
    /\ Validated("aadhaar")
    /\ dbState = "ok"
    /\ Len(candidates) >= 2
    /\ Contains(matchText[1], <<"-">>)
    /\ result = Msg("valid", dummy_aadhaars[1])

\* C5: normalize_dl is idempotent on every string of letters, digits,
\* spaces and hyphens, and stripping the non-digits is idempotent and leaves
\* a 12-digit string as it is.
C5_NormalizationIdempotent ==
    /\ (pc = "done" /\ op = "normalize_dl") => normalize_dl(normOut) = normOut
    /\ (pc = "done" /\ op = "strip_non_digits")
         => /\ StripNonDigits(normOut) = normOut
            /\ (Len(normIn) = 12 /\ \A k \in DOMAIN normIn : normIn[k] \in Digit)
                 => normOut = normIn

\* a string with two separators and a lower-case letter was normalised
C5_Witness ==
    /\ pc = "done"
    /\ op = "normalize_dl"
    /\ \E i, j \in DOMAIN normIn :
         i # j /\ normIn[i] \in Separator /\ normIn[j] \in Separator
    /\ \E i \in DOMAIN normIn : normIn[i] \in LowerLetter
    /\ normOut # <<>>
    /\ normOut # normIn

\* C6 as stated: both validation functions end by returning a message; no
\* exception leaves them.
C6_AsStated ==
    (Validated("aadhaar") \/ Validated("dl")) => result.kind # "raised"

\* C7 as stated: the candidates of find_aadhaar and the result lines of
\* validate_dl_from_pdf hold at most one entry per normalised identifier.
C7_AsStated ==
    /\ Validated("aadhaar")
         => \A i, j \in DOMAIN candidates :
              i # j => NormalForm(candidates[i]) # NormalForm(candidates[j])
    /\ Validated("dl")
         => \A i, j \in DOMAIN result.lines :
              i # j => NormalForm(result.lines[i].dl) # NormalForm(result.lines[j].dl)

\* C8 as stated: every substring of the extracted text that has the DL form
\* is among the candidates of validate_dl_from_pdf (as cleaned up).
C8_AsStated ==
    (Validated("dl") /\ matchText # <<>>)
        => \A i \in 1..Len(matchText[1]) :
             DL_REGEX(matchText[1], i) # 0
               => InSeq(clean_extracted_text(
                          SubSeq(matchText[1], i, DL_REGEX(matchText[1], i) - 1)),
                        candidates)

\* C9 as stated: an application/pdf upload is answered with status 200 and
\* the message of the validation function, never with a 500.
C9_AsStated ==
    (pc = "done" /\ content_type = "application/pdf")
        => (response.status = 200 /\ Len(response.message) = 1)

====
